---- MODULE Spec2Model ----
(***************************************************************************)
(* A model of three classes of qiskit-aqua:                                *)
(*   DeutschJozsa  (algorithms/single_sample/deutsch_jozsa/dj.py)          *)
(*   QPE           (algorithms/single_sample/qpe/qpe.py)                   *)
(*   VarFormBased  (components/initial_states/var_form_based.py)           *)
(* Each class is one object with its fields as variables; each method is   *)
(* one action.  The quantum backend, the oracle and the variational form   *)
(* are external: what they return is an input of the action that calls     *)
(* them.  Every class has its own specification (SpecDJ, SpecQPE,          *)
(* SpecVFB); the variables of the other classes stay at their initial      *)
(* values.                                                                 *)
(***************************************************************************)
EXTENDS Integers, Sequences, FiniteSets, TLC

VARIABLES
    oracle_circuit,   \* the circuit the oracle object currently holds (external)
    oracle_variables, \* len(oracle.variable_register)
    dj_circuit,       \* DeutschJozsa._circuit
    dj_ret,           \* DeutschJozsa._ret
    dj_returned,      \* what the last construct_circuit call returned
    dj_composed,      \* how many times lines 77-109 of dj.py have run
    dj_oracle_reads,  \* how many times self._oracle.circuit has been read
    vf_state,         \* VarFormBased: "none", "constructed" or "failed"
    vf_var_form,      \* VarFormBased._var_form
    vf_var_form_params, \* VarFormBased._var_form_params
    vf_init_args,     \* the arguments VarFormBased.__init__ was called with
    vf_call,          \* the last call on VarFormBased and its outcome
    qpe_state,        \* QPE: "none", "constructed" or "ran"
    qpe_operator,     \* the coefficients of the operator QPE.__init__ was given
    qpe_num_ancillae, \* QPE._num_ancillae
    qpe_pauli_list,   \* the coefficients of QPE._pauli_list
    qpe_binary_fractions, \* QPE._binary_fractions
    qpe_ret,          \* QPE._ret
    qpe_result        \* what the backend returned to the last _compute_energy

\* Python's None, and a field or dictionary entry that holds a value x.
None == <<>>
Some(x) == <<x>>

(***************************************************************************)
(* Bounds of the model.                                                    *)
(***************************************************************************)
MaxKeys == 2          \* keys in one dictionary of counts
MaxShots == 3         \* shots of one execution: the counts of a dictionary add up to at most this
OracleVersions == 2   \* distinct circuits the oracle may hold over time
MaxParams == 2        \* longest parameter list / largest num_parameters
MaxPaulis == 2        \* Pauli terms of an operator
DiagTotal == 2        \* the diagonal of the density matrix, in units of 1/DiagTotal
Precision == 4        \* bits of a float's significand (CPython's float has 53)

VariableRegisterSizes == {1, 2}
AncillaSizes == {1, 2, 3}

(***************************************************************************)
(* Bitstrings: a Python str of '0' and '1' is a sequence of the digits.    *)
(***************************************************************************)
Bitstrings(n) == [1..n -> {0, 1}]

AllZero(s) == \A i \in 1..Len(s) : s[i] = 0

\* int(s) of a string of decimal digits (Python parses base 10).
RECURSIVE int(_)
int(s) == IF Len(s) = 0 THEN 0
          ELSE 10 * int(SubSeq(s, 1, Len(s) - 1)) + s[Len(s)]

\* s[::-1]
Reverse(s) == [i \in 1..Len(s) |-> s[Len(s) + 1 - i]]

\* Python's order on strings: character by character, a prefix first.
RECURSIVE str_less(_, _)
str_less(s, t) ==
    IF Len(s) = 0 THEN Len(t) > 0
    ELSE IF Len(t) = 0 THEN FALSE
    ELSE IF s[1] # t[1] THEN s[1] < t[1]
    ELSE str_less(Tail(s), Tail(t))

\* The position of a bitstring among those of its length (its value in base 2).
RECURSIVE Rank(_)
Rank(s) == IF Len(s) = 0 THEN 0
           ELSE 2 * Rank(SubSeq(s, 1, Len(s) - 1)) + s[Len(s)]

\* The subsets of S with exactly k elements.
RECURSIVE KSubsets(_, _)
KSubsets(S, k) ==
    IF k = 0 THEN {{}}
    ELSE UNION { { T \cup {x} : T \in KSubsets({y \in S : Rank(y) < Rank(x)}, k - 1) } : x \in S }

RECURSIVE SumOver(_, _)
SumOver(f, D) == IF D = {} THEN 0
                 ELSE LET x == CHOOSE y \in D : TRUE IN f[x] + SumOver(f, D \ {x})

\* The dictionaries of counts a backend can return for n measured bits: a
\* function from at most MaxKeys bitstrings to positive counts.
CountsDicts(n) ==
    UNION { UNION { { f \in [K -> 1..MaxShots] : SumOver(f, K) <= MaxShots }
                    : K \in KSubsets(Bitstrings(n), k) } : k \in 1..MaxKeys }

(***************************************************************************)
(* DeutschJozsa                                                            *)
(***************************************************************************)
\* A dictionary of counts in its iteration order: a sequence of
\* <<bitstring, count>> with pairwise distinct bitstrings.
MeasurementDicts(n) ==
    UNION { { [i \in 1..Cardinality(DOMAIN f) |-> <<order[i], f[order[i]]>>] :
                order \in { o \in [1..Cardinality(DOMAIN f) -> DOMAIN f] :
                              \A i, j \in DOMAIN o : i # j => o[i] # o[j] } }
            : f \in CountsDicts(n) }

\* max(items) without the key: Python then orders the items as tuples, by
\* bitstring first.
RECURSIVE max_without_key(_, _, _)
max_without_key(items, i, best) ==
    IF i > Len(items) THEN best
    ELSE max_without_key(items, i + 1,
                         IF str_less(best[1], items[i][1]) THEN items[i] ELSE best)

\* A maximum that keeps the last of the items with the highest count.
RECURSIVE max_by_count_last(_, _, _)
max_by_count_last(items, i, best) ==
    IF i > Len(items) THEN best
    ELSE max_by_count_last(items, i + 1,
                           IF items[i][2] >= best[2] THEN items[i] ELSE best)

\* max(items, key=operator.itemgetter(1)): the first item of the iteration
\* whose count no later item exceeds strictly.
RECURSIVE max_by_count(_, _, _)
max_by_count(items, i, best) ==
    IF i > Len(items) THEN best
    ELSE max_by_count(items, i + 1,
                      IF items[i][2] > best[2] THEN items[i] ELSE best)

interpret_measurement(measurements) ==
    LET top_measurement == max_by_count(measurements, 2, measurements[1])[1]
    IN  IF int(top_measurement) = 0 THEN "constant" ELSE "balanced"

\* Lines 77-109: the four segments in the order they are added.
compose(qc_oracle, id) ==
    [id |-> id, segments |-> <<"preoracle", qc_oracle, "postoracle", "measurement">>]

\* construct_circuit without the test of line 74.
dj_always_compose ==
    [circuit |-> compose(oracle_circuit, dj_composed + 1),
     composed |-> dj_composed + 1, reads |-> dj_oracle_reads + 1]

\* The state construct_circuit leaves behind, for _run to share.
dj_after_construct ==
    IF dj_circuit # None
    THEN [circuit |-> dj_circuit[1], composed |-> dj_composed, reads |-> dj_oracle_reads]
    ELSE [circuit |-> compose(oracle_circuit, dj_composed + 1),
          composed |-> dj_composed + 1, reads |-> dj_oracle_reads + 1]

DJ_construct_circuit ==
    LET a == dj_after_construct
    IN  /\ dj_circuit' = Some(a.circuit)
        /\ dj_composed' = a.composed
        /\ dj_oracle_reads' = a.reads
        /\ dj_returned' = Some(a.circuit)
        /\ UNCHANGED <<oracle_circuit, oracle_variables, dj_ret>>

DJ_run ==
    \E measurements \in MeasurementDicts(oracle_variables) :
        LET a == dj_after_construct
        IN  /\ dj_circuit' = Some(a.circuit)
            /\ dj_composed' = a.composed
            /\ dj_oracle_reads' = a.reads
            /\ dj_ret' = [circuit |-> Some(a.circuit),
                          measurements |-> Some(measurements),
                          result |-> Some(interpret_measurement(measurements))]
            /\ UNCHANGED <<oracle_circuit, oracle_variables, dj_returned>>

\* The oracle is an object of its own: its circuit may be rebuilt between calls.
OracleChange ==
    /\ oracle_circuit < OracleVersions
    /\ oracle_circuit' = oracle_circuit + 1
    /\ UNCHANGED <<oracle_variables, dj_circuit, dj_ret, dj_returned, dj_composed,
                   dj_oracle_reads>>

dj_vars == <<oracle_circuit, oracle_variables, dj_circuit, dj_ret, dj_returned, dj_composed, dj_oracle_reads>>

\* DeutschJozsa.__init__, lines 58-60, over an oracle of n variable qubits.
DJ_constructed(n) ==
    /\ oracle_circuit = 1
    /\ oracle_variables = n
    /\ dj_circuit = None
    /\ dj_ret = [circuit |-> None, measurements |-> None, result |-> None]
    /\ dj_returned = None
    /\ dj_composed = 0
    /\ dj_oracle_reads = 0

(***************************************************************************)
(* VarFormBased                                                            *)
(***************************************************************************)
VarForms == [id : {"ry", "ryrz"}, num_parameters : 0..MaxParams]
ParamLists == UNION { [1..k -> {0, 1}] : k \in 0..MaxParams }
Modes == {"vector", "circuit", "statevector", "matrix"}
Registers == {"None", "q", "qr"}

\* The external VariationalForm.construct_circuit(parameters, q=register).
var_form_construct_circuit(var_form, parameters, q) ==
    [var_form |-> var_form, parameters |-> parameters, q |-> q]

NoCall == [op |-> "None"]

\* A test that lets spare parameters through.
parameters_at_least(var_form, params) == var_form.num_parameters <= Len(params)

\* Line 29: the condition under which __init__ goes on.
parameters_compatible(var_form, params) == var_form.num_parameters = Len(params)

VFB_init ==
    /\ vf_state = "none"
    /\ \E var_form \in VarForms, params \in ParamLists :
        /\ vf_init_args' = Some([var_form |-> var_form, params |-> params])
        /\ IF ~parameters_compatible(var_form, params)
           THEN /\ vf_state' = "failed"
                /\ vf_call' = [op |-> "__init__", raised |-> Some("RuntimeError")]
                /\ UNCHANGED <<vf_var_form, vf_var_form_params>>
           ELSE /\ vf_state' = "constructed"
                /\ vf_var_form' = Some(var_form)
                /\ vf_var_form_params' = Some(params)
                /\ vf_call' = [op |-> "__init__", raised |-> None]

\* construct_circuit without its first branch: 'vector' falls to the else.
construct_circuit_outcome_no_vector(mode, register) ==
    IF mode = "circuit"
    THEN [raised |-> None,
          returned |-> Some(var_form_construct_circuit(
                                vf_var_form[1], vf_var_form_params[1], register))]
    ELSE [raised |-> Some("ValueError"), returned |-> None]

\* construct_circuit that does not pass the register on.
construct_circuit_outcome_no_register(mode, register) ==
    IF mode = "vector" THEN [raised |-> Some("RuntimeError"), returned |-> None]
    ELSE IF mode = "circuit"
         THEN [raised |-> None,
               returned |-> Some(var_form_construct_circuit(
                                     vf_var_form[1], vf_var_form_params[1], "None"))]
         ELSE [raised |-> Some("ValueError"), returned |-> None]

\* Lines 50-55.
construct_circuit_outcome(mode, register) ==
    IF mode = "vector" THEN [raised |-> Some("RuntimeError"), returned |-> None]
    ELSE IF mode = "circuit"
         THEN [raised |-> None,
               returned |-> Some(var_form_construct_circuit(
                                     vf_var_form[1], vf_var_form_params[1], register))]
         ELSE [raised |-> Some("ValueError"), returned |-> None]

VFB_construct_circuit ==
    /\ vf_state = "constructed"
    /\ \E mode \in Modes, register \in Registers :
        /\ vf_call' = [op |-> "construct_circuit", mode |-> mode, register |-> register,
                       raised |-> construct_circuit_outcome(mode, register).raised,
                       returned |-> construct_circuit_outcome(mode, register).returned]
        /\ UNCHANGED <<vf_state, vf_init_args, vf_var_form, vf_var_form_params>>

vf_vars == <<vf_state, vf_init_args, vf_var_form, vf_var_form_params, vf_call>>

VFB_initial ==
    /\ vf_state = "none"
    /\ vf_init_args = None
    /\ vf_var_form = None
    /\ vf_var_form_params = None
    /\ vf_call = NoCall

(***************************************************************************)
(* Floating point.  A Python float is a binary floating-point number       *)
(* rounded to nearest, ties to even.  The model keeps that arithmetic with *)
(* a significand of Precision bits and an exponent without limits: a float *)
(* is <<m, e>>, standing for m * 2^e, with m odd and |m| < 2^Precision, or *)
(* <<0, 0>>.                                                               *)
(***************************************************************************)
RECURSIVE Pow2(_)
Pow2(k) == IF k = 0 THEN 1 ELSE 2 * Pow2(k - 1)

Abs(x) == IF x < 0 THEN -x ELSE x

Zero == <<0, 0>>
Half == <<1, -1>>

\* m * 2^e with m > 0, written with an odd m.
RECURSIVE Norm(_, _)
Norm(m, e) == IF m % 2 = 0 THEN Norm(m \div 2, e + 1) ELSE <<m, e>>

\* The float nearest to (n / d) * 2^e, for n > 0 and d > 0.
RECURSIVE RoundPos(_, _, _)
RoundPos(n, d, e) ==
    IF n >= Pow2(Precision) * d THEN RoundPos(n, 2 * d, e + 1)
    ELSE IF n < Pow2(Precision - 1) * d THEN RoundPos(2 * n, d, e - 1)
    ELSE LET q == n \div d
             r == n % d
         IN  IF 2 * r > d \/ (2 * r = d /\ q % 2 = 1)
             THEN Norm(q + 1, e) ELSE Norm(q, e)

\* The float nearest to sign * (n / d) * 2^e, for n >= 0 and d > 0.
Round(sign, n, d, e) ==
    IF n = 0 THEN Zero
    ELSE LET r == RoundPos(n, d, e) IN <<sign * r[1], r[2]>>

Sign(m) == IF m < 0 THEN -1 ELSE 1

float_abs(a) == <<Abs(a[1]), a[2]>>

float_mul(a, b) == Round(Sign(a[1]) * Sign(b[1]), Abs(a[1]) * Abs(b[1]), 1, a[2] + b[2])

\* a / b for b # 0.
float_div(a, b) == Round(Sign(a[1]) * Sign(b[1]), Abs(a[1]), Abs(b[1]), a[2] - b[2])

float_add(a, b) ==
    LET e == IF a[2] < b[2] THEN a[2] ELSE b[2]
        m == a[1] * Pow2(a[2] - e) + b[1] * Pow2(b[2] - e)
    IN  Round(Sign(m), Abs(m), 1, e)

float_sub(a, b) == float_add(a, <<-b[1], b[2]>>)

\* sum(xs): Python adds from the left, starting from the integer 0.
RECURSIVE float_sum(_)
float_sum(xs) ==
    IF Len(xs) = 0 THEN Zero
    ELSE float_add(float_sum(SubSeq(xs, 1, Len(xs) - 1)), xs[Len(xs)])

(***************************************************************************)
(* QPE                                                                     *)
(***************************************************************************)
\* The coefficients of the Pauli terms an operator may have.
Coefficients == { <<1, 0>>, <<-1, 3>>, <<7, 0>>, <<-7, -1>> }
Operators == UNION { [1..k -> Coefficients] : k \in 1..MaxPaulis }

\* Lines 113-118 and 135-144 of qpe.py: the fields QPE.__init__ sets.
qpe_constructed(operator, num_ancillae) ==
    LET translation == float_sum([i \in 1..Len(operator) |-> float_abs(operator[i])])
        stretch == float_div(Half, translation)
    IN  [num_ancillae |-> num_ancillae,
         ret |-> [translation |-> translation,
                  stretch |-> stretch,
                  top_measurement_label |-> None,
                  top_measurement_decimal |-> None,
                  eigvals |-> None,
                  energy |-> None],
         pauli_list |-> [i \in 1..Len(operator) |-> float_mul(operator[i], stretch)],
         binary_fractions |-> [p \in 1..num_ancillae |-> <<1, -p>>]]

\* np.binary_repr(num, width) for 0 <= num < 2^width.
RECURSIVE binary_repr(_, _)
binary_repr(num, width) ==
    IF width = 0 THEN <<>>
    ELSE Append(binary_repr(num \div 2, width - 1), num % 2)

\* Line 200: max(diag.min(), diag.max(), key=abs); max returns its first
\* argument unless the second has a strictly greater key.
RECURSIVE seq_min(_)
seq_min(xs) == IF Len(xs) = 1 THEN xs[1]
               ELSE LET m == seq_min(SubSeq(xs, 1, Len(xs) - 1))
                    IN  IF xs[Len(xs)] < m THEN xs[Len(xs)] ELSE m

RECURSIVE seq_max(_)
seq_max(xs) == IF Len(xs) = 1 THEN xs[1]
               ELSE LET m == seq_max(SubSeq(xs, 1, Len(xs) - 1))
                    IN  IF xs[Len(xs)] > m THEN xs[Len(xs)] ELSE m

max_amplitude(diag) ==
    IF Abs(seq_max(diag)) > Abs(seq_min(diag)) THEN seq_max(diag) ELSE seq_min(diag)

\* Line 201: np.where(diag == max_amplitude)[0][0], an index counted from 0.
max_amplitude_idx(diag) ==
    (CHOOSE i \in 1..Len(diag) :
        /\ diag[i] = max_amplitude(diag)
        /\ \A j \in 1..(i - 1) : diag[j] # max_amplitude(diag)) - 1

\* The label without the [::-1] of line 202.
statevector_label_unreversed(diag, num_ancillae) ==
    binary_repr(max_amplitude_idx(diag), num_ancillae)

\* Line 202.
statevector_label(diag, num_ancillae) ==
    Reverse(binary_repr(max_amplitude_idx(diag), num_ancillae))

\* Python's order on the tuples (count, bitstring): counts first, then the
\* strings.
tuple_less(x, y) == x[1] < y[1] \/ (x[1] = y[1] /\ str_less(x[2], y[2]))

\* sorted(S) for a set S of tuples (count, bitstring), smallest first.
RECURSIVE sorted(_)
sorted(S) ==
    IF S = {} THEN <<>>
    ELSE LET least == CHOOSE x \in S : \A y \in S \ {x} : tuple_less(x, y)
         IN  <<least>> \o sorted(S \ {least})

\* The label without the last [::-1] of line 211.
measurement_label_unreversed(ancilla_counts) ==
    Reverse(sorted({ <<ancilla_counts[k], k>> : k \in DOMAIN ancilla_counts }))[1][2]

\* Line 211: sorted([(counts[k], k) for k in counts])[::-1][0][-1][::-1]
measurement_label(ancilla_counts) ==
    Reverse(Reverse(sorted({ <<ancilla_counts[k], k>> : k \in DOMAIN ancilla_counts }))[1][2])

\* Lines 213-215: sum(t[0] * t[1] for t in zip(fractions, digits of label)).
top_measurement_decimal(binary_fractions, label) ==
    LET len == IF Len(binary_fractions) < Len(label) THEN Len(binary_fractions) ELSE Len(label)
    IN  float_sum([i \in 1..len |-> IF label[i] = 1 THEN binary_fractions[i] ELSE Zero])

\* Line 219 with the stretch multiplied instead of divided.
eigval_times_stretch(decimal, ret) ==
    float_sub(float_mul(decimal, ret.stretch), ret.translation)

\* Line 219 without the translation taken off.
eigval_unshifted(decimal, ret) == float_div(decimal, ret.stretch)

\* Line 219.
eigval(decimal, ret) == float_sub(float_div(decimal, ret.stretch), ret.translation)

\* Lines 213-220: the entries _compute_energy writes for a label.
compute_energy(label) ==
    LET decimal == top_measurement_decimal(qpe_binary_fractions, label)
        energy == eigval(decimal, qpe_ret)
    IN  [qpe_ret EXCEPT !.top_measurement_label = Some(label),
                        !.top_measurement_decimal = Some(decimal),
                        !.eigvals = Some(<<energy>>),
                        !.energy = Some(energy)]

\* The diagonals of an ancilla density matrix: 2^n weights that are not
\* negative and add up to DiagTotal.
Diagonals(n) ==
    { [i \in 1..Pow2(n) |-> Cardinality({ j \in 1..DiagTotal : at[j] = i })] :
        at \in { a \in [1..DiagTotal -> 1..Pow2(n)] :
                   \A j \in 1..(DiagTotal - 1) : a[j] <= a[j + 1] } }

NoResult == [is_statevector |-> FALSE, counts |-> <<>>, diag |-> <<>>]

QPE_init ==
    /\ qpe_state = "none"
    /\ \E operator \in Operators, num_ancillae \in AncillaSizes :
        LET made == qpe_constructed(operator, num_ancillae)
        IN  /\ qpe_state' = "constructed"
            /\ qpe_operator' = operator
            /\ qpe_num_ancillae' = made.num_ancillae
            /\ qpe_pauli_list' = made.pauli_list
            /\ qpe_binary_fractions' = made.binary_fractions
            /\ qpe_ret' = made.ret
            /\ UNCHANGED qpe_result

\* _run with a backend that samples: lines 204-211, then 213-220.
QPE_run_measurement ==
    /\ qpe_state = "constructed"
    /\ \E ancilla_counts \in CountsDicts(qpe_num_ancillae) :
        /\ qpe_state' = "ran"
        /\ qpe_result' = [is_statevector |-> FALSE, counts |-> ancilla_counts, diag |-> <<>>]
        /\ qpe_ret' = compute_energy(measurement_label(ancilla_counts))
        /\ UNCHANGED <<qpe_operator, qpe_num_ancillae, qpe_pauli_list, qpe_binary_fractions>>

\* _run with a statevector backend: lines 193-202, then 213-220.
QPE_run_statevector ==
    /\ qpe_state = "constructed"
    /\ \E diag \in Diagonals(qpe_num_ancillae) :
        /\ qpe_state' = "ran"
        /\ qpe_result' = [is_statevector |-> TRUE, counts |-> <<>>, diag |-> diag]
        /\ qpe_ret' = compute_energy(statevector_label(diag, qpe_num_ancillae))
        /\ UNCHANGED <<qpe_operator, qpe_num_ancillae, qpe_pauli_list, qpe_binary_fractions>>

qpe_vars == <<qpe_state, qpe_operator, qpe_num_ancillae, qpe_pauli_list,
              qpe_binary_fractions, qpe_ret, qpe_result>>

\* No QPE object yet.
QPE_initial ==
    /\ qpe_state = "none"
    /\ qpe_operator = <<>>
    /\ qpe_num_ancillae = 0
    /\ qpe_pauli_list = <<>>
    /\ qpe_binary_fractions = <<>>
    /\ qpe_ret = [translation |-> Zero, stretch |-> Zero, top_measurement_label |-> None,
                  top_measurement_decimal |-> None, eigvals |-> None, energy |-> None]
    /\ qpe_result = NoResult

\* A QPE object right after construction, over ancilla registers up to 5
\* qubits, one more than a significand of 4 bits holds.
WideAncillaSizes == AncillaSizes \cup {5}
WideOperators == { <<c>> : c \in Coefficients }

QPE_constructed_wide ==
    \E operator \in WideOperators, num_ancillae \in WideAncillaSizes :
        LET made == qpe_constructed(operator, num_ancillae)
        IN  /\ qpe_state = "constructed"
            /\ qpe_operator = operator
            /\ qpe_num_ancillae = made.num_ancillae
            /\ qpe_pauli_list = made.pauli_list
            /\ qpe_binary_fractions = made.binary_fractions
            /\ qpe_ret = made.ret
            /\ qpe_result = NoResult

(***************************************************************************)
(* Specifications                                                          *)
(***************************************************************************)
vars == <<dj_vars, vf_vars, qpe_vars>>

DJ_init == \E n \in VariableRegisterSizes : DJ_constructed(n)

\* The same objects at rest, for the specifications of the other classes.
DJ_initial == DJ_constructed(1)

InitDJ == DJ_init /\ VFB_initial /\ QPE_initial
InitVFB == DJ_initial /\ VFB_initial /\ QPE_initial
InitQPE == DJ_initial /\ VFB_initial /\ QPE_initial

NextDJ ==
    \/ DJ_construct_circuit /\ UNCHANGED <<vf_vars, qpe_vars>>
    \/ DJ_run /\ UNCHANGED <<vf_vars, qpe_vars>>
    \/ OracleChange /\ UNCHANGED <<vf_vars, qpe_vars>>

NextVFB ==
    \/ VFB_init /\ UNCHANGED <<dj_vars, qpe_vars>>
    \/ VFB_construct_circuit /\ UNCHANGED <<dj_vars, qpe_vars>>

NextQPE ==
    \/ QPE_init /\ UNCHANGED <<dj_vars, vf_vars>>
    \/ QPE_run_measurement /\ UNCHANGED <<dj_vars, vf_vars>>
    \/ QPE_run_statevector /\ UNCHANGED <<dj_vars, vf_vars>>

InitWide == DJ_initial /\ VFB_initial /\ QPE_constructed_wide

NextWide ==
    \/ QPE_run_measurement /\ UNCHANGED <<dj_vars, vf_vars>>
    \/ QPE_run_statevector /\ UNCHANGED <<dj_vars, vf_vars>>

SpecDJ == InitDJ /\ [][NextDJ]_vars
SpecVFB == InitVFB /\ [][NextVFB]_vars
SpecQPE == InitQPE /\ [][NextQPE]_vars
SpecQPEWide == InitWide /\ [][NextWide]_vars

(***************************************************************************)
(* Properties of DeutschJozsa                                              *)
(***************************************************************************)
dj_ran == dj_ret.result # None

\* Item i of m has a count strictly above every other item's.
StrictlyHighest(m, i) == \A j \in 1..Len(m) : j # i => m[i][2] > m[j][2]

\* The first item of m, in iteration order, with the highest count.
FirstHighest(m) ==
    CHOOSE i \in 1..Len(m) :
        /\ \A j \in 1..Len(m) : m[j][2] <= m[i][2]
        /\ \A j \in 1..(i - 1) : m[j][2] < m[i][2]

Classification(bitstring) == IF AllZero(bitstring) THEN "constant" ELSE "balanced"

\* C1: whenever one bitstring of the measured counts has a strictly highest
\* count, the result of _run is "constant" if that bitstring is all zeros and
\* "balanced" otherwise; the result is never a third value.
C1_Classification ==
    dj_ran =>
        LET m == dj_ret.measurements[1]
        IN  /\ dj_ret.result[1] \in {"constant", "balanced"}
            /\ \A i \in 1..Len(m) :
                   StrictlyHighest(m, i) => dj_ret.result[1] = Classification(m[i][1])

\* A run over two bitstrings whose second, the all-zero one, has the strictly
\* highest count.
C1_Witness ==
    /\ dj_ran
    /\ Len(dj_ret.measurements[1]) = 2
    /\ StrictlyHighest(dj_ret.measurements[1], 2)
    /\ AllZero(dj_ret.measurements[1][2][1])
    /\ oracle_variables = 2
    /\ dj_ret.result[1] = "constant"

\* C8: the circuit is composed at most once and the oracle's circuit is read
\* at most once; the stored circuit holds the four segments in order; what
\* construct_circuit returned and the 'circuit' entry of the result are that
\* stored circuit.
C8_ComposedOnce ==
    /\ dj_composed <= 1
    /\ dj_oracle_reads <= 1
    /\ dj_circuit # None =>
          /\ dj_circuit[1].id = 1
          /\ Len(dj_circuit[1].segments) = 4
          /\ dj_circuit[1].segments[1] = "preoracle"
          /\ dj_circuit[1].segments[2] \in 1..oracle_circuit
          /\ dj_circuit[1].segments[3] = "postoracle"
          /\ dj_circuit[1].segments[4] = "measurement"
    /\ dj_returned # None => dj_returned = dj_circuit
    /\ dj_ret.circuit # None => dj_ret.circuit = dj_circuit

\* construct_circuit and _run have both been called, and the oracle holds
\* another circuit than the one that was composed.
C8_Witness ==
    /\ dj_returned # None
    /\ dj_ret.circuit # None
    /\ dj_circuit[1].segments[2] # oracle_circuit

\* The orders in which a dictionary of the same content can be iterated.
Orderings(m) ==
    { [i \in 1..Len(m) |-> m[p[i]]] :
        p \in { q \in [1..Len(m) -> 1..Len(m)] : \A i, j \in 1..Len(m) : i # j => q[i] # q[j] } }

\* C9: the result is decided by the first bitstring, in iteration order, with
\* the highest count; when one bitstring is strictly highest, every order of
\* the same content gives the same result.
C9_FirstInOrder ==
    dj_ran =>
        LET m == dj_ret.measurements[1]
        IN  /\ dj_ret.result[1] = Classification(m[FirstHighest(m)][1])
            /\ (\E i \in 1..Len(m) : StrictlyHighest(m, i)) =>
                   \A o \in Orderings(m) : interpret_measurement(o) = dj_ret.result[1]

\* The all-zero bitstring ties with another one for the highest count, and
\* the same content in another order is classified differently.
C9_Witness ==
    /\ dj_ran
    /\ LET m == dj_ret.measurements[1]
       IN  /\ \E i, j \in 1..Len(m) :
                  /\ i # j
                  /\ AllZero(m[i][1])
                  /\ m[i][2] = m[j][2]
                  /\ \A k \in 1..Len(m) : m[k][2] <= m[i][2]
           /\ \E o \in Orderings(m) : interpret_measurement(o) # dj_ret.result[1]

(***************************************************************************)
(* Properties of VarFormBased                                              *)
(***************************************************************************)
\* C4: construction fails, leaving no stored variational form or parameters,
\* when the number of parameters differs from num_parameters; otherwise it
\* succeeds and stores exactly the arguments.
C4_Construction ==
    vf_init_args # None =>
        LET var_form == vf_init_args[1].var_form
            params == vf_init_args[1].params
        IN  IF var_form.num_parameters # Len(params)
            THEN /\ vf_state = "failed"
                 /\ vf_call = [op |-> "__init__", raised |-> Some("RuntimeError")]
                 /\ vf_var_form = None
                 /\ vf_var_form_params = None
            ELSE /\ vf_state = "constructed"
                 /\ vf_var_form = Some(var_form)
                 /\ vf_var_form_params = Some(params)
                 /\ vf_call.op = "__init__" => vf_call.raised = None

\* A construction with more parameters than the variational form takes.
C4_Witness ==
    /\ vf_init_args # None
    /\ Len(vf_init_args[1].params) > vf_init_args[1].var_form.num_parameters
    /\ vf_state = "failed"

vf_called == vf_call.op = "construct_circuit"

C6_Modes ==
    vf_called =>
        /\ vf_call.raised = Some("ValueError") <=> vf_call.mode \notin {"vector", "circuit"}
        /\ vf_call.mode = "circuit" =>
              /\ vf_call.raised = None
              /\ vf_call.returned =
                    Some(var_form_construct_circuit(vf_init_args[1].var_form,
                                                    vf_init_args[1].params,
                                                    vf_call.register))

\* A call with mode 'circuit' and a register, on a form with parameters.
C6_Witness ==
    /\ vf_called
    /\ vf_call.mode = "circuit"
    /\ vf_call.register = "q"
    /\ Len(vf_init_args[1].params) = 2
    /\ vf_call.returned # None

(***************************************************************************)
(* Properties of QPE.  The numbers of the model are dyadic: <<m, e>> is     *)
(* m * 2^e, and the operators below compute with them exactly.              *)
(***************************************************************************)
Min(a, b) == IF a < b THEN a ELSE b

DLe(a, b) ==
    a[1] * Pow2(a[2] - Min(a[2], b[2])) <= b[1] * Pow2(b[2] - Min(a[2], b[2]))

DEq(a, b) == DLe(a, b) /\ DLe(b, a)

DLt(a, b) == ~DLe(b, a)

DNeg(a) == <<-a[1], a[2]>>

DAdd(a, b) ==
    <<a[1] * Pow2(a[2] - Min(a[2], b[2])) + b[1] * Pow2(b[2] - Min(a[2], b[2])),
      Min(a[2], b[2])>>

DSub(a, b) == DAdd(a, DNeg(b))

DMul(a, b) == <<a[1] * b[1], a[2] + b[2]>>

DAbs(a) == <<Abs(a[1]), a[2]>>

\* The rounding error allowed below: 6 units of 2^-Precision.
Tolerance == <<6, -Precision>>

qpe_ran == qpe_state = "ran"
qpe_measured == qpe_ran /\ ~qpe_result.is_statevector

\* The binary fraction 0.b1 b2 ... bn of a label b1 b2 ... bn.
FractionValue(label) == <<Rank(label), -Len(label)>>

\* The label is the reverse of a bitstring no other bitstring has more counts than.
LabelOfHighestCount ==
    \E k \in DOMAIN qpe_result.counts :
        /\ \A j \in DOMAIN qpe_result.counts : qpe_result.counts[j] <= qpe_result.counts[k]
        /\ qpe_ret.top_measurement_label[1] = Reverse(k)

\* C2 as stated: after a run that samples, the label is the reverse of a
\* bitstring with the highest count, and top_measurement_decimal is the
\* binary fraction of the label, for labels of every length.
C2_DecimalIsFraction ==
    qpe_measured =>
        /\ LabelOfHighestCount
        /\ Len(qpe_ret.top_measurement_label[1]) = qpe_num_ancillae
        /\ DEq(qpe_ret.top_measurement_decimal[1],
               FractionValue(qpe_ret.top_measurement_label[1]))
        /\ AllZero(qpe_ret.top_measurement_label[1]) =>
               qpe_ret.top_measurement_decimal[1] = Zero

\* C2, amended: the same, with top_measurement_decimal the binary fraction of
\* the label when the label has no more bits than a float's significand.
C2_DecimalIsFractionWithinPrecision ==
    qpe_measured =>
        /\ LabelOfHighestCount
        /\ Len(qpe_ret.top_measurement_label[1]) = qpe_num_ancillae
        /\ qpe_num_ancillae <= Precision =>
               DEq(qpe_ret.top_measurement_decimal[1],
                   FractionValue(qpe_ret.top_measurement_label[1]))
        /\ AllZero(qpe_ret.top_measurement_label[1]) =>
               qpe_ret.top_measurement_decimal[1] = Zero

\* A run over three ancillae and two bitstrings of different counts, whose
\* label has two 1s and is not its own reverse.
C2_Witness ==
    /\ qpe_measured
    /\ qpe_num_ancillae = 3
    /\ Cardinality(DOMAIN qpe_result.counts) = 2
    /\ \E j, k \in DOMAIN qpe_result.counts : qpe_result.counts[j] < qpe_result.counts[k]
    /\ qpe_ret.top_measurement_label[1] = <<0, 1, 1>>
    /\ qpe_ret.top_measurement_decimal[1] = <<3, -3>>

\* What (energy + translation) * stretch evaluates to.
RoundTrip ==
    float_mul(float_add(qpe_ret.energy[1], qpe_ret.translation), qpe_ret.stretch)

\* The relations of C3 that hold as the code evaluates them.
EnergyRelations ==
    /\ qpe_ret.eigvals = Some(<<qpe_ret.energy[1]>>)
    /\ qpe_ret.energy[1] =
          float_sub(float_div(qpe_ret.top_measurement_decimal[1], qpe_ret.stretch),
                    qpe_ret.translation)
    /\ qpe_ret.translation =
          float_sum([i \in 1..Len(qpe_operator) |-> float_abs(qpe_operator[i])])
    /\ qpe_ret.stretch = float_div(Half, qpe_ret.translation)

\* C3 as stated: after a run, energy is eigvals[0] and
\* top_measurement_decimal / stretch - translation, with translation the sum
\* of the absolute coefficients given at construction and stretch
\* 0.5 / translation, and (energy + translation) * stretch gives back
\* top_measurement_decimal.
C3_RoundTripExact ==
    qpe_ran => (EnergyRelations /\ RoundTrip = qpe_ret.top_measurement_decimal[1])

\* C3, amended: the same relations, with (energy + translation) * stretch
\* within the rounding tolerance of top_measurement_decimal, and equal to it
\* for the all-zero label.
C3_RoundTripWithinRounding ==
    qpe_ran =>
        /\ EnergyRelations
        /\ DLe(DAbs(DSub(RoundTrip, qpe_ret.top_measurement_decimal[1])), Tolerance)
        /\ AllZero(qpe_ret.top_measurement_label[1]) =>
               RoundTrip = qpe_ret.top_measurement_decimal[1]

\* A run whose operator has two terms and whose round trip is off by rounding.
C3_Witness ==
    /\ qpe_ran
    /\ Len(qpe_operator) = 2
    /\ RoundTrip # qpe_ret.top_measurement_decimal[1]

\* energy <= translation * (1 - 2^(1-n)) + slack * translation, multiplied
\* through by 2^(n-1).
EnergyAtMost(slack) ==
    DLe(<<qpe_ret.energy[1][1], qpe_ret.energy[1][2] + qpe_num_ancillae - 1>>,
        DAdd(DMul(qpe_ret.translation, <<Pow2(qpe_num_ancillae - 1) - 1, 0>>),
             DMul(DMul(slack, qpe_ret.translation), <<1, qpe_num_ancillae - 1>>)))

\* C10 as stated: -T <= energy <= T * (1 - 2^(1-n)), energy below T, and
\* with one ancilla energy is -T or 0.
C10_EnergyRange ==
    qpe_ran =>
        /\ DLe(DNeg(qpe_ret.translation), qpe_ret.energy[1])
        /\ EnergyAtMost(Zero)
        /\ DLt(qpe_ret.energy[1], qpe_ret.translation)
        /\ qpe_num_ancillae = 1 =>
               qpe_ret.energy[1] \in {DNeg(qpe_ret.translation), Zero}

\* C10, amended: for labels no longer than a float's significand,
\* -T <= energy <= T * (1 - 2^(1-n)) + Tolerance * T, energy is -T for the
\* all-zero label, and with one ancilla energy is -T or within Tolerance * T
\* of 0.
C10_EnergyRangeWithinRounding ==
    (qpe_ran /\ qpe_num_ancillae <= Precision) =>
        /\ DLe(DNeg(qpe_ret.translation), qpe_ret.energy[1])
        /\ EnergyAtMost(Tolerance)
        /\ AllZero(qpe_ret.top_measurement_label[1]) =>
               qpe_ret.energy[1] = DNeg(qpe_ret.translation)
        /\ qpe_num_ancillae = 1 =>
               \/ qpe_ret.energy[1] = DNeg(qpe_ret.translation)
               \/ DLe(DAbs(qpe_ret.energy[1]), DMul(Tolerance, qpe_ret.translation))

\* A run over two ancillae whose energy is above T * (1 - 2^(1-n)).
C10_Witness ==
    /\ qpe_ran
    /\ qpe_num_ancillae = 2
    /\ ~EnergyAtMost(Zero)

\* C7: after a run on a statevector backend, the label is the reverse of the
\* num_ancillae-bit binary number of an index of the diagonal; no entry has a
\* greater magnitude than the entry at that index, and no entry before it has
\* the same value.
C7_MaxAmplitudeIndex ==
    (qpe_ran /\ qpe_result.is_statevector) =>
        LET diag == qpe_result.diag
            label == qpe_ret.top_measurement_label[1]
            idx == Rank(Reverse(label))
        IN  /\ Len(label) = qpe_num_ancillae
            /\ idx + 1 \in 1..Len(diag)
            /\ \A j \in 1..Len(diag) : Abs(diag[j]) <= Abs(diag[idx + 1])
            /\ \A j \in 1..idx : diag[j] # diag[idx + 1]

\* A run over three ancillae whose diagonal has its highest entry twice, the
\* first time at index 3 (binary 011).
C7_Witness ==
    /\ qpe_ran
    /\ qpe_result.is_statevector
    /\ qpe_num_ancillae = 3
    /\ qpe_result.diag[4] = 1
    /\ qpe_result.diag[7] = 1
    /\ qpe_ret.top_measurement_label[1] = <<1, 1, 0>>
====
